---- MODULE Spec2Model ----
(***************************************************************************)
(* Physics and collision core of the platformer (src/src/physics,          *)
(* src/src/entities, src/src/game).                                        *)
(*                                                                         *)
(* Number representation.  The program computes in f32.  The model works   *)
(* on the values on which that arithmetic is exact:                        *)
(*   - a position or a size is an integer count of 1/20 pixel, written     *)
(*     Px(n) for n pixels;                                                 *)
(*   - a velocity is an integer number of pixels per second;               *)
(*   - a frame time (get_frame_time()) is an integer number of ticks of    *)
(*     1/20 second, so that velocity * dt is (velocity * ticks) position   *)
(*     units and gravity * dt is 49 * ticks pixels per second.             *)
(* The one product that leaves the grid, velocity.x * 0.8 in               *)
(* Player::update, is rounded toward zero.                                 *)
(***************************************************************************)
EXTENDS Integers, Sequences, FiniteSets, TLC

VARIABLES
    \* ---- Game (game/mod.rs:11-21) ----
    state,          \* Game::state
    player,         \* Game::player
    platforms,      \* Game::platforms
    collectibles,   \* Game::collectibles
    camera_offset,  \* Game::camera_offset
    score,          \* Game::score
    time_survived,  \* Game::time_survived, in ticks
    current_keys,   \* InputHandler::current_keys
    previous_keys,  \* InputHandler::previous_keys
    \* ---- the main loop (main.rs:16-33) ----
    pc,             \* the call the loop makes next
    idx,            \* index of the platform the collision loop checks next
    frame_time,     \* get_frame_time() of the current frame, in ticks
    frames,         \* number of frames completed
    frame_start,    \* the player when Game::update was entered
    frame_log,      \* the physics calls Game::update has made in this frame
    \* ---- calls of the physics / collision API ----
    start,          \* the player the calls started from
    pre,            \* the player before the last call
    hist,           \* the calls made so far, oldest first
    ret             \* the value last returned

gameVars == <<state, platforms, collectibles, camera_offset, score,
              time_survived, current_keys, previous_keys>>
loopVars == <<pc, idx, frame_time, frames, frame_start, frame_log>>
apiVars  == <<start, pre, hist, ret>>

vars == <<player, gameVars, loopVars, apiVars>>

----------------------------------------------------------------------------
(* Bounds of the model *)

\* number of API calls in one run of SpecPhysics / SpecGeom
MaxOps == 3
\* SpecGeom: body1 positions range over 0..MaxCoord position units
MaxCoord == 5
\* SpecGeom: sizes range over 1..MaxSize position units
MaxSize == 3

\* number of frames of the main loop in one run of Spec
MaxFrames == 3

\* SpecOps: the calls of the CollisionResolver and of Platform::update are
\* among the first MaxResolverOps calls of a run
MaxResolverOps == 2

\* number of queries in one run of SpecQuery
MaxQueries == 2

\* frame times of SpecPhysics, in ticks of 1/20 s (0.05 s and 0.1 s)
DtSet == {1, 2}

\* frame times of Spec, in ticks: a 0.1 s frame and a 1 s stall
FrameTimes == {2, 20}

\* the sets of keys is_key_down reports in one poll
KeySets == {{}, {"A"}, {"D"}, {"Space"}, {"D", "Space"}, {"Right", "Up"},
            {"R"}, {"Enter"}}

----------------------------------------------------------------------------
(* Helpers *)

Px(n) == 20 * n

Min(a, b) == IF a <= b THEN a ELSE b
Max(a, b) == IF a >= b THEN a ELSE b
Abs(a) == IF a < 0 THEN -a ELSE a

\* a * num / den, rounded toward zero
MulFrac(a, num, den) ==
    IF a >= 0 THEN (a * num) \div den ELSE -(((-a) * num) \div den)

None == <<>>
Some(v) == <<v>>

Vec2(x, y) == [x |-> x, y |-> y]

----------------------------------------------------------------------------
(* entities/mod.rs : PhysicsBody *)

PhysicsBody_new(x, y, width, height) ==
    [position |-> Vec2(x, y), velocity |-> Vec2(0, 0),
     size |-> Vec2(width, height), on_ground |-> FALSE, mass |-> 1]

get_bounds(body) ==
    <<body.position.x, body.position.y,
      body.position.x + body.size.x, body.position.y + body.size.y>>

----------------------------------------------------------------------------
(* entities/platform.rs : Platform *)

Platform_new(x, y, width, height) ==
    [body |-> PhysicsBody_new(x, y, width, height), platform_type |-> "Normal"]

Platform_get_bounds(platform) == get_bounds(platform.body)

----------------------------------------------------------------------------
(* entities/player.rs : Player *)

Player_new(x, y) ==
    [body |-> PhysicsBody_new(x, y, Px(32), Px(32)),
     move_speed |-> 200, jump_force |-> -400,
     max_jump_count |-> 2, current_jump_count |-> 0]

move_left(p) == [p EXCEPT !.body.velocity.x = -p.move_speed]

move_right(p) == [p EXCEPT !.body.velocity.x = p.move_speed]

jump_unbounded(p) ==
    [p EXCEPT !.body.velocity.y = p.jump_force,
              !.current_jump_count = p.current_jump_count + 1,
              !.body.on_ground = FALSE]

jump(p) ==
    IF p.current_jump_count < p.max_jump_count
    THEN [p EXCEPT !.body.velocity.y = p.jump_force,
                   !.current_jump_count = p.current_jump_count + 1,
                   !.body.on_ground = FALSE]
    ELSE p

reset_jump(p) == [p EXCEPT !.current_jump_count = 0]

set_on_ground_no_reset(p, on_ground) ==
    [p EXCEPT !.body.on_ground = on_ground]

set_on_ground(p, on_ground) ==
    LET q == [p EXCEPT !.body.on_ground = on_ground]
    IN  IF on_ground THEN reset_jump(q) ELSE q

\* impl Entity for Player: update (friction on the horizontal velocity)
Player_update(p) ==
    LET vx == MulFrac(p.body.velocity.x, 8, 10)
    IN  [p EXCEPT !.body.velocity.x = IF Abs(vx) < 1 THEN 0 ELSE vx]

----------------------------------------------------------------------------
(* physics/mod.rs : Physics *)

gravity == 980
terminal_velocity == 500

apply_gravity_unclamped(p, dt) ==
    IF ~p.body.on_ground
    THEN [p EXCEPT !.body.velocity.y = p.body.velocity.y + (gravity * dt) \div 20]
    ELSE p

apply_gravity_grounded_too(p, dt) ==
    LET vy == p.body.velocity.y + (gravity * dt) \div 20
    IN  [p EXCEPT !.body.velocity.y =
                      IF vy > terminal_velocity THEN terminal_velocity ELSE vy]

apply_gravity_assign(p, dt) ==
    IF ~p.body.on_ground
    THEN LET vy == (gravity * dt) \div 20
         IN  [p EXCEPT !.body.velocity.y =
                   IF vy > terminal_velocity THEN terminal_velocity ELSE vy]
    ELSE p

apply_gravity(p, dt) ==
    IF ~p.body.on_ground
    THEN LET vy == p.body.velocity.y + (gravity * dt) \div 20
         IN  [p EXCEPT !.body.velocity.y =
                   IF vy > terminal_velocity THEN terminal_velocity ELSE vy]
    ELSE p

update_position_drift(p, dt) ==
    Player_update(
        [p EXCEPT !.body.position.x = p.body.position.x + p.body.velocity.x * dt,
                  !.body.position.y = p.body.position.y
                      + (p.body.velocity.y + (gravity * dt) \div 20) * dt])

update_position(p, dt) ==
    Player_update(
        [p EXCEPT !.body.position.x = p.body.position.x + p.body.velocity.x * dt,
                  !.body.position.y = p.body.position.y + p.body.velocity.y * dt])

rectangles_overlap(rect1, rect2) ==
    /\ rect1[1] < rect2[3]
    /\ rect1[3] > rect2[1]
    /\ rect1[2] < rect2[4]
    /\ rect1[4] > rect2[2]

resolve_collision_head_clears(p, platform) ==
    LET pb  == <<p.body.position.x, p.body.position.y,
                 p.body.position.x + p.body.size.x,
                 p.body.position.y + p.body.size.y>>
        plb == Platform_get_bounds(platform)
        px1 == pb[1]   py1 == pb[2]   px2 == pb[3]   py2 == pb[4]
        plx1 == plb[1] ply1 == plb[2] plx2 == plb[3] ply2 == plb[4]
        overlap_x == Min(px2 - plx1, plx2 - px1)
        overlap_y == Min(py2 - ply1, ply2 - py1)
    IN  IF overlap_x < overlap_y
        THEN [p EXCEPT !.body.position.x =
                           IF px1 < plx1 THEN plx1 - p.body.size.x ELSE plx2,
                       !.body.velocity.x = 0]
        ELSE IF py1 < ply1
             THEN [set_on_ground(p, TRUE) EXCEPT
                       !.body.position.y = ply1 - p.body.size.y,
                       !.body.velocity.y = 0]
             ELSE [set_on_ground(p, FALSE) EXCEPT
                       !.body.position.y = ply2,
                       !.body.velocity.y = 0]

resolve_collision_wall_grounds(p, platform) ==
    LET pb  == <<p.body.position.x, p.body.position.y,
                 p.body.position.x + p.body.size.x,
                 p.body.position.y + p.body.size.y>>
        plb == Platform_get_bounds(platform)
        px1 == pb[1]   py1 == pb[2]   px2 == pb[3]   py2 == pb[4]
        plx1 == plb[1] ply1 == plb[2] plx2 == plb[3] ply2 == plb[4]
        overlap_x == Min(px2 - plx1, plx2 - px1)
        overlap_y == Min(py2 - ply1, ply2 - py1)
    IN  IF overlap_x < overlap_y
        THEN \* horizontal collision
             [set_on_ground(p, TRUE) EXCEPT
                  !.body.position.x =
                      IF px1 < plx1 THEN plx1 - p.body.size.x ELSE plx2,
                  !.body.velocity.x = 0]
        ELSE \* vertical collision
             IF py1 < ply1
             THEN \* landing
                  [set_on_ground(p, TRUE) EXCEPT
                       !.body.position.y = ply1 - p.body.size.y,
                       !.body.velocity.y = 0]
             ELSE \* hitting head
                  [p EXCEPT !.body.position.y = ply2,
                            !.body.velocity.y = 0]

resolve_collision_sink(p, platform) ==
    LET pb  == <<p.body.position.x, p.body.position.y,
                 p.body.position.x + p.body.size.x,
                 p.body.position.y + p.body.size.y>>
        plb == Platform_get_bounds(platform)
        px1 == pb[1]   py1 == pb[2]   px2 == pb[3]   py2 == pb[4]
        plx1 == plb[1] ply1 == plb[2] plx2 == plb[3] ply2 == plb[4]
        overlap_x == Min(px2 - plx1, plx2 - px1)
        overlap_y == Min(py2 - ply1, ply2 - py1)
    IN  IF overlap_x < overlap_y
        THEN \* horizontal collision
             [p EXCEPT !.body.position.x =
                           IF px1 < plx1 THEN plx1 - p.body.size.x ELSE plx2,
                       !.body.velocity.x = 0]
        ELSE \* vertical collision
             IF py1 < ply1
             THEN \* landing
                  [set_on_ground(p, TRUE) EXCEPT
                       !.body.position.y = ply1,
                       !.body.velocity.y = 0]
             ELSE \* hitting head
                  [p EXCEPT !.body.position.y = ply2,
                            !.body.velocity.y = 0]

resolve_collision(p, platform) ==
    LET pb  == <<p.body.position.x, p.body.position.y,
                 p.body.position.x + p.body.size.x,
                 p.body.position.y + p.body.size.y>>
        plb == Platform_get_bounds(platform)
        px1 == pb[1]   py1 == pb[2]   px2 == pb[3]   py2 == pb[4]
        plx1 == plb[1] ply1 == plb[2] plx2 == plb[3] ply2 == plb[4]
        overlap_x == Min(px2 - plx1, plx2 - px1)
        overlap_y == Min(py2 - ply1, ply2 - py1)
    IN  IF overlap_x < overlap_y
        THEN \* horizontal collision
             [p EXCEPT !.body.position.x =
                           IF px1 < plx1 THEN plx1 - p.body.size.x ELSE plx2,
                       !.body.velocity.x = 0]
        ELSE \* vertical collision
             IF py1 < ply1
             THEN \* landing
                  [set_on_ground(p, TRUE) EXCEPT
                       !.body.position.y = ply1 - p.body.size.y,
                       !.body.velocity.y = 0]
             ELSE \* hitting head
                  [p EXCEPT !.body.position.y = ply2,
                            !.body.velocity.y = 0]

check_collision(p, platform) ==
    LET player_bounds == <<p.body.position.x, p.body.position.y,
                           p.body.position.x + p.body.size.x,
                           p.body.position.y + p.body.size.y>>
    IN  IF rectangles_overlap(player_bounds, Platform_get_bounds(platform))
        THEN resolve_collision(p, platform)
        ELSE p

check_bounds_keeps_velocity(p) ==
    IF p.body.position.x < 0
    THEN [p EXCEPT !.body.position.x = 0]
    ELSE p

check_bounds(p) ==
    IF p.body.position.x < 0
    THEN [p EXCEPT !.body.position.x = 0, !.body.velocity.x = 0]
    ELSE p

----------------------------------------------------------------------------
(* physics/collision.rs : CollisionDetector, CollisionResolver *)

CollisionSide == {"Top", "Bottom", "Left", "Right"}

aabb_overlap_closed(rect1, rect2) ==
    /\ rect1[1] <= rect2[3]
    /\ rect1[3] >= rect2[1]
    /\ rect1[2] <= rect2[4]
    /\ rect1[4] >= rect2[2]

aabb_overlap(rect1, rect2) ==
    /\ rect1[1] < rect2[3]
    /\ rect1[3] > rect2[1]
    /\ rect1[2] < rect2[4]
    /\ rect1[4] > rect2[2]

get_collision_info_le(body1, body2) ==
    LET b1 == get_bounds(body1)
        b2 == get_bounds(body2)
        x1 == b1[1]  y1 == b1[2]  x2 == b1[3]  y2 == b1[4]
        ox1 == b2[1] oy1 == b2[2] ox2 == b2[3] oy2 == b2[4]
        overlap_x == Min(x2 - ox1, ox2 - x1)
        overlap_y == Min(y2 - oy1, oy2 - y1)
        side == IF overlap_x <= overlap_y
                THEN (IF x1 < ox1 THEN "Right" ELSE "Left")
                ELSE (IF y1 < oy1 THEN "Bottom" ELSE "Top")
        overlap == IF overlap_x <= overlap_y THEN overlap_x ELSE overlap_y
        \* (x1 + x2) / 2, (y1 + y2) / 2, kept as the doubled midpoint
        contact_point2 == Vec2(x1 + x2, y1 + y2)
    IN  IF ~aabb_overlap(b1, b2)
        THEN None
        ELSE Some([side |-> side, overlap |-> overlap,
                   contact_point2 |-> contact_point2])

get_collision_info_swapped(body1, body2) ==
    LET b1 == get_bounds(body1)
        b2 == get_bounds(body2)
        x1 == b1[1]  y1 == b1[2]  x2 == b1[3]  y2 == b1[4]
        ox1 == b2[1] oy1 == b2[2] ox2 == b2[3] oy2 == b2[4]
        overlap_x == Min(x2 - ox1, ox2 - x1)
        overlap_y == Min(y2 - oy1, oy2 - y1)
        side == IF overlap_x < overlap_y
                THEN (IF x1 < ox1 THEN "Left" ELSE "Right")
                ELSE (IF y1 < oy1 THEN "Bottom" ELSE "Top")
        overlap == IF overlap_x < overlap_y THEN overlap_x ELSE overlap_y
        \* (x1 + x2) / 2, (y1 + y2) / 2, kept as the doubled midpoint
        contact_point2 == Vec2(x1 + x2, y1 + y2)
    IN  IF ~aabb_overlap(b1, b2)
        THEN None
        ELSE Some([side |-> side, overlap |-> overlap,
                   contact_point2 |-> contact_point2])

get_collision_info(body1, body2) ==
    LET b1 == get_bounds(body1)
        b2 == get_bounds(body2)
        x1 == b1[1]  y1 == b1[2]  x2 == b1[3]  y2 == b1[4]
        ox1 == b2[1] oy1 == b2[2] ox2 == b2[3] oy2 == b2[4]
        overlap_x == Min(x2 - ox1, ox2 - x1)
        overlap_y == Min(y2 - oy1, oy2 - y1)
        side == IF overlap_x < overlap_y
                THEN (IF x1 < ox1 THEN "Right" ELSE "Left")
                ELSE (IF y1 < oy1 THEN "Bottom" ELSE "Top")
        overlap == IF overlap_x < overlap_y THEN overlap_x ELSE overlap_y
        \* (x1 + x2) / 2, (y1 + y2) / 2, kept as the doubled midpoint
        contact_point2 == Vec2(x1 + x2, y1 + y2)
    IN  IF ~aabb_overlap(b1, b2)
        THEN None
        ELSE Some([side |-> side, overlap |-> overlap,
                   contact_point2 |-> contact_point2])

\* number of samples of sweep_test
samples == 10

\* the loop of sweep_test from sample i on.  t = step * i with
\* step = delta_time / samples is kept as delta_time * i, in 1/samples of
\* a tick; velocity * t is exact for velocities that are multiples of
\* samples
RECURSIVE sweep_samples(_, _, _, _, _)
sweep_samples(i, entity, platform, velocity, delta_time) ==
    IF i > samples
    THEN None
    ELSE LET t == delta_time * i
             test_position ==
                 Vec2(entity.position.x + (velocity.x * t) \div samples,
                      entity.position.y + (velocity.y * t) \div samples)
             test_body == [entity EXCEPT !.position = test_position]
             collision == get_collision_info(test_body, platform.body)
         IN  IF collision # None
             THEN Some(<<t, collision[1]>>)
             ELSE sweep_samples(i + 1, entity, platform, velocity,
                                delta_time)

sweep_test_from_zero(entity, platform, velocity, delta_time) ==
    sweep_samples(0, entity, platform, velocity, delta_time)

sweep_test(entity, platform, velocity, delta_time) ==
    sweep_samples(1, entity, platform, velocity, delta_time)

is_on_platform_one_sided(entity, platform, tolerance) ==
    LET entity_bounds == get_bounds(entity)
        platform_bounds == Platform_get_bounds(platform)
        ex1 == entity_bounds[1]  ex2 == entity_bounds[3]
        ey2 == entity_bounds[4]
        px1 == platform_bounds[1]  py1 == platform_bounds[2]
        px2 == platform_bounds[3]
        horizontal_overlap == ex1 < px2 /\ ex2 > px1
        vertical_alignment == ey2 - py1 <= tolerance
    IN  horizontal_overlap /\ vertical_alignment

is_on_platform(entity, platform, tolerance) ==
    LET entity_bounds == get_bounds(entity)
        platform_bounds == Platform_get_bounds(platform)
        ex1 == entity_bounds[1]  ex2 == entity_bounds[3]
        ey2 == entity_bounds[4]
        px1 == platform_bounds[1]  py1 == platform_bounds[2]
        px2 == platform_bounds[3]
        horizontal_overlap == ex1 < px2 /\ ex2 > px1
        vertical_alignment == Abs(ey2 - py1) <= tolerance
    IN  horizontal_overlap /\ vertical_alignment

separate_bodies_half(body1, body2, collision) ==
    CASE collision.side = "Top" ->
            [body1 EXCEPT !.position.y = body2.position.y - body1.size.y + 1,
                          !.velocity.y = Min(body1.velocity.y, 0),
                          !.on_ground = TRUE]
      [] collision.side = "Bottom" ->
            [body1 EXCEPT !.position.y = body2.position.y + body2.size.y - 1,
                          !.velocity.y = Max(body1.velocity.y, 0)]
      [] collision.side = "Left" ->
            [body1 EXCEPT !.position.x = body2.position.x - body1.size.x + 1,
                          !.velocity.x = Min(body1.velocity.x, 0)]
      [] collision.side = "Right" ->
            [body1 EXCEPT !.position.x = body2.position.x + body2.size.x - 1,
                          !.velocity.x = Max(body1.velocity.x, 0)]

separate_bodies_zero_vel(body1, body2, collision) ==
    CASE collision.side = "Top" ->
            [body1 EXCEPT !.position.y = body2.position.y - body1.size.y,
                          !.velocity.y = 0,
                          !.on_ground = TRUE]
      [] collision.side = "Bottom" ->
            [body1 EXCEPT !.position.y = body2.position.y + body2.size.y,
                          !.velocity.y = 0]
      [] collision.side = "Left" ->
            [body1 EXCEPT !.position.x = body2.position.x - body1.size.x,
                          !.velocity.x = 0]
      [] collision.side = "Right" ->
            [body1 EXCEPT !.position.x = body2.position.x + body2.size.x,
                          !.velocity.x = 0]

----------------------------------------------------------------------------

separate_bodies(body1, body2, collision) ==
    CASE collision.side = "Top" ->
            [body1 EXCEPT !.position.y = body2.position.y - body1.size.y,
                          !.velocity.y = Min(body1.velocity.y, 0),
                          !.on_ground = TRUE]
      [] collision.side = "Bottom" ->
            [body1 EXCEPT !.position.y = body2.position.y + body2.size.y,
                          !.velocity.y = Max(body1.velocity.y, 0)]
      [] collision.side = "Left" ->
            [body1 EXCEPT !.position.x = body2.position.x - body1.size.x,
                          !.velocity.x = Min(body1.velocity.x, 0)]
      [] collision.side = "Right" ->
            [body1 EXCEPT !.position.x = body2.position.x + body2.size.x,
                          !.velocity.x = Max(body1.velocity.x, 0)]

\* restitution and friction_coefficient are fractions <<num, den>> in [0, 1]
apply_bounce_no_negate(body, collision, restitution) ==
    IF collision.side \in {"Top", "Bottom"}
    THEN [body EXCEPT !.velocity.y =
              MulFrac(body.velocity.y, restitution[1], restitution[2])]
    ELSE [body EXCEPT !.velocity.x =
              MulFrac(body.velocity.x, restitution[1], restitution[2])]

apply_bounce(body, collision, restitution) ==
    IF collision.side \in {"Top", "Bottom"}
    THEN [body EXCEPT !.velocity.y =
              MulFrac(-body.velocity.y, restitution[1], restitution[2])]
    ELSE [body EXCEPT !.velocity.x =
              MulFrac(-body.velocity.x, restitution[1], restitution[2])]

apply_friction(body, friction_coefficient) ==
    IF body.on_ground
    THEN [body EXCEPT !.velocity.x =
              MulFrac(body.velocity.x,
                      friction_coefficient[2] - friction_coefficient[1],
                      friction_coefficient[2])]
    ELSE body

\* entity_bottom is bound to the second component of the entity's bounds,
\* which is its top; the horizontal extents are not read
is_landing_on(self, entity_body, entity_prev_y) ==
    LET platform_top == Platform_get_bounds(self)[2]
        entity_bottom == get_bounds(entity_body)[2]
    IN  /\ entity_prev_y + entity_body.size.y <= platform_top + Px(5)
        /\ entity_bottom >= platform_top - Px(5)
        /\ entity_body.velocity.y >= 0

Platform_update_moving(platform) ==
    IF platform.platform_type = "Moving"
    THEN [platform EXCEPT !.body.position.x = platform.body.position.x + 1]
    ELSE platform

\* both arms of the match are empty
Platform_update(platform) ==
    IF platform.platform_type = "Moving"
    THEN platform
    ELSE platform

----------------------------------------------------------------------------
(* entities/mod.rs, entities/collectible.rs *)

overlaps_with_closed(self, other) ==
    LET b == get_bounds(self)
        o == get_bounds(other)
    IN  b[1] <= o[3] /\ b[3] >= o[1] /\ b[2] <= o[4] /\ b[4] >= o[2]

overlaps_with(self, other) ==
    LET b == get_bounds(self)
        o == get_bounds(other)
    IN  b[1] < o[3] /\ b[3] > o[1] /\ b[2] < o[4] /\ b[4] > o[2]

Collectible_new(x, y, collectible_type) ==
    [body |-> PhysicsBody_new(x, y, Px(16), Px(16)),
     collected |-> FALSE,
     value |-> CASE collectible_type = "Coin" -> 10
                 [] collectible_type = "Gem" -> 50
                 [] collectible_type = "PowerUp" -> 100,
     collectible_type |-> collectible_type,
     animation_time |-> 0]

\* Collectible::collect: the collectible after the call and the value
\* returned
collect(c) ==
    IF ~c.collected
    THEN <<[c EXCEPT !.collected = TRUE], c.value>>
    ELSE <<c, 0>>

check_collection_no_flag(c, player_body) ==
    IF overlaps_with(c.body, player_body)
    THEN <<[c EXCEPT !.collected = TRUE], c.value>>
    ELSE <<c, 0>>

\* Collectible::check_collection: the collectible after the call and the
\* value returned
check_collection(c, player_body) ==
    IF ~c.collected /\ overlaps_with(c.body, player_body)
    THEN collect(c)
    ELSE <<c, 0>>

\* impl Entity for Collectible: update
Collectible_update(c, dt) ==
    [c EXCEPT !.animation_time = c.animation_time + dt]

\* Collectible::update followed by Collectible::check_collection, as the
\* loop of Game::update calls them; the collectible after the two calls
Collectible_step(c, player_body, dt) ==
    check_collection(Collectible_update(c, dt), player_body)[1]

----------------------------------------------------------------------------
(* game/mod.rs : Game, and the loop of main.rs *)

GameState == {"Playing", "GameOver"}

\* macroquad's window, 800 x 600 pixels
screen_width == Px(800)
screen_height == Px(600)

Game_new_platforms ==
    << [Platform_new(0, screen_height - Px(40), screen_width, Px(40))
            EXCEPT !.platform_type = "Ground"],
       Platform_new(Px(200), screen_height - Px(120), Px(200), Px(20)),
       Platform_new(Px(500), screen_height - Px(200), Px(150), Px(20)),
       Platform_new(Px(750), screen_height - Px(280), Px(200), Px(20)) >>

Game_new_collectibles ==
    << Collectible_new(Px(150), screen_height - Px(160), "Coin"),
       Collectible_new(Px(300), screen_height - Px(160), "Coin"),
       Collectible_new(Px(550), screen_height - Px(240), "Gem"),
       Collectible_new(Px(800), screen_height - Px(320), "Coin"),
       Collectible_new(Px(900), screen_height - Px(320), "PowerUp"),
       Collectible_new(Px(1200), screen_height - Px(80), "Coin") >>

Game_new ==
    /\ state = "Playing"
    /\ player = Player_new(Px(100), screen_height - Px(100))
    /\ platforms = Game_new_platforms
    /\ collectibles = Game_new_collectibles
    /\ camera_offset = Vec2(0, 0)
    /\ score = 0
    /\ time_survived = 0
    /\ current_keys = {}
    /\ previous_keys = {}

LoopIdle ==
    /\ pc = "handle_input"
    /\ idx = 1
    /\ frame_time = 0
    /\ frames = 0
    /\ frame_start = player
    /\ frame_log = <<>>

ApiIdle ==
    /\ start = player
    /\ pre = player
    /\ hist = <<>>
    /\ ret = None

Init == Game_new /\ LoopIdle /\ ApiIdle

\* InputHandler::is_key_down, is_key_pressed on the key sets of a frame
is_key_down(cur, key) == key \in cur
is_key_pressed_level(cur, prev, key) == key \in cur
is_key_pressed(cur, prev, key) == key \in cur /\ key \notin prev
is_key_released(cur, prev, key) == key \notin cur /\ key \in prev

\* the keys InputHandler::update polls
keys_to_check ==
    {"A", "D", "W", "S", "Space", "Left", "Right", "Up", "Down", "Enter",
     "Escape", "R", "P"}

\* Game::handle_input: InputHandler::update with the polled keys, then the
\* dispatch on the game state.  The frame time of the frame is fixed here.
HandleInput ==
    /\ pc = "handle_input"
    /\ frames < MaxFrames
    /\ \E keys \in KeySets, dt \in FrameTimes :
        LET prev == current_keys
            left  == is_key_down(keys, "A") \/ is_key_down(keys, "Left")
            right == is_key_down(keys, "D") \/ is_key_down(keys, "Right")
            jmp   == \/ is_key_pressed(keys, prev, "Space")
                     \/ is_key_pressed(keys, prev, "W")
                     \/ is_key_pressed(keys, prev, "Up")
            p1 == IF left THEN move_left(player) ELSE player
            p2 == IF right THEN move_right(p1) ELSE p1
            p3 == IF jmp THEN jump(p2) ELSE p2
            reset == IF state = "Playing"
                     THEN is_key_pressed(keys, prev, "R")
                     ELSE \/ is_key_pressed(keys, prev, "Space")
                          \/ is_key_pressed(keys, prev, "Enter")
        IN  /\ previous_keys' = prev
            /\ current_keys' = keys
            /\ frame_time' = dt
            /\ IF reset
               THEN \* Game::reset_game
                    /\ state' = "Playing"
                    /\ player' = Player_new(Px(100), screen_height - Px(100))
                    /\ camera_offset' = Vec2(0, 0)
                    /\ score' = 0
                    /\ time_survived' = 0
                    /\ collectibles' =
                           [k \in DOMAIN collectibles |->
                               [collectibles[k] EXCEPT !.collected = FALSE]]
               ELSE /\ player' = IF state = "Playing" THEN p3 ELSE player
                    /\ UNCHANGED <<state, camera_offset, score, time_survived,
                                   collectibles>>
    /\ pc' = "update"
    /\ frame_log' = <<>>
    /\ UNCHANGED <<platforms, idx, frames, frame_start, apiVars>>

UpdateGameOver_ticks ==
    /\ pc = "update"
    /\ state = "GameOver"
    /\ time_survived' = time_survived + frame_time
    /\ pc' = "handle_input"
    /\ frames' = frames + 1
    /\ UNCHANGED <<player, state, platforms, collectibles, camera_offset,
                   score, current_keys, previous_keys, idx, frame_time,
                   frame_start, frame_log, apiVars>>

\* Game::update, state GameOver: nothing to do
UpdateGameOver ==
    /\ pc = "update"
    /\ state = "GameOver"
    /\ pc' = "handle_input"
    /\ frames' = frames + 1
    /\ UNCHANGED <<player, gameVars, idx, frame_time, frame_start, frame_log,
                   apiVars>>

\* Game::update, state Playing: time_survived, then Physics::apply_gravity
UpdateApplyGravity ==
    /\ pc = "update"
    /\ state = "Playing"
    /\ time_survived' = time_survived + frame_time
    /\ frame_start' = player
    /\ player' = apply_gravity(player, frame_time)
    /\ frame_log' = Append(frame_log, [call |-> "apply_gravity", platform |-> 0])
    /\ pc' = "update_position"
    /\ UNCHANGED <<state, platforms, collectibles, camera_offset, score,
                   current_keys, previous_keys, idx, frame_time, frames,
                   apiVars>>

\* Game::update: Physics::update_position
UpdatePosition ==
    /\ pc = "update_position"
    /\ player' = update_position(player, frame_time)
    /\ frame_log' = Append(frame_log, [call |-> "update_position", platform |-> 0])
    /\ pc' = "check_collision"
    /\ idx' = 1
    /\ UNCHANGED <<gameVars, frame_time, frames, frame_start, apiVars>>

UpdateCheckCollision_reversed ==
    /\ pc = "check_collision"
    /\ idx <= Len(platforms)
    /\ player' = check_collision(player, platforms[Len(platforms) + 1 - idx])
    /\ frame_log' = Append(frame_log, [call |-> "check_collision",
                                       platform |-> Len(platforms) + 1 - idx])
    /\ idx' = idx + 1
    /\ UNCHANGED <<gameVars, pc, frame_time, frames, frame_start, apiVars>>

\* Game::update: one iteration of `for platform in &self.platforms`
UpdateCheckCollision ==
    /\ pc = "check_collision"
    /\ idx <= Len(platforms)
    /\ player' = check_collision(player, platforms[idx])
    /\ frame_log' = Append(frame_log, [call |-> "check_collision", platform |-> idx])
    /\ idx' = idx + 1
    /\ UNCHANGED <<gameVars, pc, frame_time, frames, frame_start, apiVars>>

\* Game::update: the rest of the frame, after the platform loop: the
\* collectibles, the camera, the score and the fall out of the world.  The
\* values added to the score by the collectibles are overwritten by the
\* distance/time score computed after them.
UpdateFinish ==
    /\ pc = "check_collision"
    /\ idx > Len(platforms)
    /\ collectibles' =
           [k \in DOMAIN collectibles |->
               Collectible_step(collectibles[k], player.body, frame_time)]
    /\ camera_offset' = Vec2(player.body.position.x - screen_width \div 2, 0)
    /\ score' = MulFrac(player.body.position.x, 1, 200)
                    + (time_survived \div 20) * 10
    /\ state' = IF player.body.position.y > screen_height + Px(100)
                THEN "GameOver" ELSE state
    /\ pc' = "handle_input"
    /\ frames' = frames + 1
    /\ UNCHANGED <<player, platforms, time_survived, current_keys,
                   previous_keys, idx, frame_time, frame_start, frame_log,
                   apiVars>>

Next ==
    \/ HandleInput
    \/ UpdateGameOver
    \/ UpdateApplyGravity
    \/ UpdatePosition
    \/ UpdateCheckCollision
    \/ UpdateFinish

Spec == Init /\ [][Next]_vars

----------------------------------------------------------------------------
(* Calls of the physics / collision API on one player.  Each action is one *)
(* call; hist records the calls, pre the player the last call was made on, *)
(* ret the value last returned.                                            *)

Call(name, dt, i) == [op |-> name, dt |-> dt, i |-> i]

ApiCall(call, p2, r) ==
    /\ Len(hist) < MaxOps
    /\ pre' = player
    /\ player' = p2
    /\ ret' = r
    /\ hist' = Append(hist, call)
    /\ UNCHANGED <<start, gameVars, loopVars>>

CallApplyGravity ==
    \E dt \in DtSet :
        ApiCall(Call("apply_gravity", dt, 0), apply_gravity(player, dt), None)

CallUpdatePosition ==
    \E dt \in DtSet :
        ApiCall(Call("update_position", dt, 0), update_position(player, dt), None)

CallCheckCollision ==
    \E i \in 1..Len(platforms) :
        ApiCall(Call("check_collision", 0, i),
                check_collision(player, platforms[i]), None)

CallCheckBounds ==
    ApiCall(Call("check_bounds", 0, 0), check_bounds(player), None)

CallJump == ApiCall(Call("jump", 0, 0), jump(player), None)

CallMoveLeft == ApiCall(Call("move_left", 0, 0), move_left(player), None)

CallMoveRight == ApiCall(Call("move_right", 0, 0), move_right(player), None)

CallAabbOverlap ==
    ApiCall(Call("aabb_overlap", 0, 1), player,
            Some(aabb_overlap(get_bounds(player.body),
                              Platform_get_bounds(platforms[1]))))

CallGetCollisionInfo ==
    ApiCall(Call("get_collision_info", 0, 1), player,
            get_collision_info(player.body, platforms[1].body))

\* separate_bodies(body1, body2, &info) with the info get_collision_info
\* has just returned for the pair
CallSeparateBodies ==
    /\ Len(hist) > 0
    /\ hist[Len(hist)].op = "get_collision_info"
    /\ ret # None
    /\ ApiCall(Call("separate_bodies", 0, 1),
               [player EXCEPT !.body =
                    separate_bodies(player.body, platforms[1].body, ret[1])],
               ret)

\* what surrounds the player and the platforms in SpecPhysics and SpecGeom
ApiWorld ==
    /\ collectibles = <<>>
    /\ camera_offset = Vec2(0, 0)
    /\ score = 0
    /\ time_survived = 0
    /\ current_keys = {}
    /\ previous_keys = {}
    /\ LoopIdle
    /\ ApiIdle

(* SpecPhysics: a 32 x 32 player as the game can leave it (grounded: at    *)
(* rest vertically with its jumps reset; airborne: between the jump        *)
(* impulse and terminal velocity), against the platform                    *)
(* Platform::new(0, 100, 200, 20) and a second platform whose underside    *)
(* is 2 pixels below the head of a player standing on the first.           *)

PhysicsPlayers ==
    { [Player_new(Px(x), Px(y)) EXCEPT
           !.body.velocity = Vec2(vx, vy),
           !.body.on_ground = g,
           !.current_jump_count = c] :
        x \in {-24, 100, 192, 820}, y \in {50, 68, 76, 92, 100, 110},
        vx \in {0, 200}, vy \in {-400, 0, 460, 500},
        g \in BOOLEAN, c \in 0..2 }

InitPhysics ==
    /\ state = "Playing"
    /\ platforms = <<Platform_new(Px(0), Px(100), Px(200), Px(20)),
                     Platform_new(Px(140), Px(40), Px(100), Px(30))>>
    /\ player \in PhysicsPlayers
    /\ player.body.on_ground =>
           player.body.velocity.y = 0 /\ player.current_jump_count = 0
    /\ ApiWorld

NextPhysics ==
    \/ CallApplyGravity
    \/ CallUpdatePosition
    \/ CallCheckCollision
    \/ CallCheckBounds
    \/ CallJump
    \/ CallMoveLeft
    \/ CallMoveRight

SpecPhysics == InitPhysics /\ [][NextPhysics]_vars

(* SpecGeom: every small moving body against every small platform placed   *)
(* at (2, 2), so that the body can lie on each side of it, touch it,        *)
(* straddle an edge, contain it or be contained in it.                      *)

GeomBodies ==
    { [PhysicsBody_new(x, y, w, h) EXCEPT
           !.velocity = Vec2(v, v), !.on_ground = g] :
        x \in 0..MaxCoord, y \in 0..MaxCoord,
        w \in 1..MaxSize, h \in 1..MaxSize,
        v \in {-1, 1}, g \in BOOLEAN }

GeomPlatforms ==
    { Platform_new(2, 2, w, h) : w \in 1..MaxSize, h \in 1..MaxSize }

\* the pair of the tie-break scenario: bounds (0, 0, 10, 10) and (5, 5, 15, 15)
TieBodies ==
    { [PhysicsBody_new(0, 0, 10, 10) EXCEPT
           !.velocity = Vec2(v, v), !.on_ground = g] :
        v \in {-1, 1}, g \in BOOLEAN }

TiePlatforms == { Platform_new(5, 5, 10, 10) }

InitGeom ==
    /\ state = "Playing"
    /\ \E pl \in GeomPlatforms \cup TiePlatforms : platforms = <<pl>>
    /\ \E b \in GeomBodies \cup TieBodies :
           player = [Player_new(0, 0) EXCEPT !.body = b]
    /\ ApiWorld

NextGeom ==
    \/ CallAabbOverlap
    \/ CallGetCollisionInfo
    \/ CallSeparateBodies
    \/ CallCheckCollision

SpecGeom == InitGeom /\ [][NextGeom]_vars

(* SpecOps: every operation that writes to a body, in any order, on a      *)
(* 32 x 32 player between a normal and a moving platform.  The calls of    *)
(* the CollisionResolver and of Platform::update are made among the first  *)
(* MaxResolverOps calls of a run.                                          *)

Restitutions == {<<0, 1>>, <<1, 2>>, <<1, 1>>}

Frictions == {<<1, 10>>, <<1, 1>>}

\* a CollisionInfo built by the caller; the resolver reads its side only
CollisionInfo(side) ==
    [side |-> side, overlap |-> 0, contact_point2 |-> Vec2(0, 0)]

CallWith(name, i, side, frac) ==
    [op |-> name, dt |-> 0, i |-> i, side |-> side, frac |-> frac]

CallSeparateSide ==
    \E i \in 1..Len(platforms), s \in CollisionSide :
        /\ Len(hist) < MaxResolverOps
        /\ ApiCall(CallWith("separate_bodies", i, s, <<0, 1>>),
                   [player EXCEPT !.body =
                        separate_bodies(player.body, platforms[i].body,
                                        CollisionInfo(s))],
                   Some(CollisionInfo(s)))

CallApplyBounce ==
    \E s \in CollisionSide, r \in Restitutions :
        /\ Len(hist) < MaxResolverOps
        /\ ApiCall(CallWith("apply_bounce", 0, s, r),
                   [player EXCEPT !.body =
                        apply_bounce(player.body, CollisionInfo(s), r)],
                   Some(CollisionInfo(s)))

CallApplyFriction ==
    \E f \in Frictions :
        /\ Len(hist) < MaxResolverOps
        /\ ApiCall(CallWith("apply_friction", 0, "Top", f),
                   [player EXCEPT !.body = apply_friction(player.body, f)],
                   None)

CallPlatformUpdate ==
    \E i \in 1..Len(platforms) :
        /\ Len(hist) < MaxResolverOps
        /\ platforms' = [platforms EXCEPT ![i] = Platform_update(platforms[i])]
        /\ pre' = player
        /\ ret' = None
        /\ hist' = Append(hist, Call("Platform_update", 0, i))
        /\ UNCHANGED <<player, start, state, collectibles, camera_offset,
                       score, time_survived, current_keys, previous_keys,
                       loopVars>>

OpsPlatforms ==
    <<Platform_new(Px(0), Px(100), Px(200), Px(20)),
      [Platform_new(Px(140), Px(40), Px(100), Px(30)) EXCEPT
           !.platform_type = "Moving"]>>

OpsPlayers ==
    { [Player_new(Px(x), Px(y)) EXCEPT
           !.body.velocity = Vec2(vx, vy),
           !.body.on_ground = g] :
        x \in {-24, 100}, y \in {68, 92},
        vx \in {-200, 200}, vy \in {-400, 0, 460}, g \in BOOLEAN }

InitOps ==
    /\ state = "Playing"
    /\ platforms = OpsPlatforms
    /\ player \in OpsPlayers
    /\ player.body.on_ground = (player.body.velocity.y = 0)
    /\ ApiWorld

NextOps ==
    \/ CallApplyGravity
    \/ CallUpdatePosition
    \/ CallCheckCollision
    \/ CallCheckBounds
    \/ CallJump
    \/ CallMoveLeft
    \/ CallMoveRight
    \/ CallSeparateSide
    \/ CallApplyBounce
    \/ CallApplyFriction
    \/ CallPlatformUpdate

SpecOps == InitOps /\ [][NextOps]_vars

(* SpecQuery: the queries of the CollisionDetector that take a platform,   *)
(* up to MaxQueries of them, on a 32 x 32 body above, on, in and beside    *)
(* the two platforms of SpecPhysics.                                       *)

SweepVelocities ==
    {Vec2(0, 0), Vec2(0, 500), Vec2(200, 0), Vec2(-200, -400)}

Tolerances == {Px(0), Px(5)}

CallSweepTest ==
    \E i \in 1..Len(platforms), v \in SweepVelocities, dt \in DtSet :
        /\ Len(hist) < MaxQueries
        /\ ApiCall([op |-> "sweep_test", dt |-> dt, i |-> i, velocity |-> v],
                   player,
                   sweep_test(player.body, platforms[i], v, dt))

CallIsOnPlatform ==
    \E i \in 1..Len(platforms), tolerance \in Tolerances :
        /\ Len(hist) < MaxQueries
        /\ ApiCall([op |-> "is_on_platform", dt |-> 0, i |-> i,
                    tolerance |-> tolerance],
                   player,
                   Some(is_on_platform(player.body, platforms[i], tolerance)))

\* the entity's position.y of the previous frame
PrevYs == {Px(8), Px(68)}

CallIsLandingOn ==
    \E i \in 1..Len(platforms), entity_prev_y \in PrevYs :
        /\ Len(hist) < MaxQueries
        /\ ApiCall([op |-> "is_landing_on", dt |-> 0, i |-> i,
                    entity_prev_y |-> entity_prev_y],
                   player,
                   Some(is_landing_on(platforms[i], player.body,
                                      entity_prev_y)))

QueryPlayers ==
    { [Player_new(Px(x), Px(y)) EXCEPT
           !.body.velocity = v,
           !.body.on_ground = g] :
        x \in {-40, 100, 192}, y \in {50, 62, 63, 68, 71, 73, 78},
        v \in {Vec2(0, 0), Vec2(200, 460), Vec2(0, -400)}, g \in BOOLEAN }

InitQuery ==
    /\ state = "Playing"
    /\ platforms = <<Platform_new(Px(0), Px(100), Px(200), Px(20)),
                     Platform_new(Px(140), Px(40), Px(100), Px(30))>>
    /\ player \in QueryPlayers
    /\ player.body.on_ground => player.body.velocity.y = 0
    /\ ApiWorld

NextQuery ==
    \/ CallSweepTest
    \/ CallIsOnPlatform
    \/ CallIsLandingOn

SpecQuery == InitQuery /\ [][NextQuery]_vars

(* SpecOverlap: the three overlap tests, each with its arguments in either *)
(* order, up to MaxQueries of them, on the pairs of SpecGeom.              *)

\* the two bodies of a test, exchanged when swap holds
First(swap) == IF swap THEN platforms[1].body ELSE player.body

Second(swap) == IF swap THEN player.body ELSE platforms[1].body

CallTest(name, swap) == [op |-> name, dt |-> 0, i |-> 1, swap |-> swap]

CallOverlapsWith ==
    \E swap \in BOOLEAN :
        /\ Len(hist) < MaxQueries
        /\ ApiCall(CallTest("overlaps_with", swap), player,
                   Some(overlaps_with(First(swap), Second(swap))))

CallAabbOverlapPair ==
    \E swap \in BOOLEAN :
        /\ Len(hist) < MaxQueries
        /\ ApiCall(CallTest("aabb_overlap", swap), player,
                   Some(aabb_overlap(get_bounds(First(swap)),
                                     get_bounds(Second(swap)))))

CallRectanglesOverlap ==
    \E swap \in BOOLEAN :
        /\ Len(hist) < MaxQueries
        /\ ApiCall(CallTest("rectangles_overlap", swap), player,
                   Some(rectangles_overlap(get_bounds(First(swap)),
                                           get_bounds(Second(swap)))))

NextOverlap ==
    \/ CallOverlapsWith
    \/ CallAabbOverlapPair
    \/ CallRectanglesOverlap

SpecOverlap == InitGeom /\ [][NextOverlap]_vars

(* SpecCollect: Collectible::update and check_collection on each of two    *)
(* collectibles, a player that moves past them, and reset_game.            *)

CollectCall(call, cs2, r) ==
    /\ Len(hist) < MaxOps
    /\ pre' = player
    /\ ret' = r
    /\ hist' = Append(hist, call)
    /\ collectibles' = cs2
    /\ UNCHANGED <<player, start, state, platforms, camera_offset, score,
                   time_survived, current_keys, previous_keys, loopVars>>

CallCheckCollection ==
    \E k \in 1..Len(collectibles) :
        LET res == check_collection(collectibles[k], player.body)
        IN  CollectCall([op |-> "check_collection", dt |-> 0, i |-> k,
                         value |-> res[2]],
                        [collectibles EXCEPT ![k] = res[1]],
                        Some(res[2]))

CallCollectibleUpdate ==
    \E k \in 1..Len(collectibles), dt \in DtSet :
        CollectCall([op |-> "update", dt |-> dt, i |-> k, value |-> 0],
                    [collectibles EXCEPT
                         ![k] = Collectible_update(collectibles[k], dt)],
                    None)

\* Game::reset_game
CallResetGame ==
    /\ Len(hist) < MaxOps
    /\ state' = "Playing"
    /\ player' = Player_new(Px(100), screen_height - Px(100))
    /\ camera_offset' = Vec2(0, 0)
    /\ score' = 0
    /\ time_survived' = 0
    /\ collectibles' = [k \in DOMAIN collectibles |->
                           [collectibles[k] EXCEPT !.collected = FALSE]]
    /\ pre' = player
    /\ ret' = None
    /\ hist' = Append(hist, [op |-> "reset_game", dt |-> 0, i |-> 0,
                             value |-> 0])
    /\ UNCHANGED <<start, platforms, current_keys, previous_keys, loopVars>>

\* players beside, touching and inside the first collectible of Game::new,
\* at rest or moving right
CollectPlayers ==
    { [Player_new(Px(x), screen_height - Px(y)) EXCEPT
           !.body.velocity = Vec2(vx, 0)] :
        x \in {108, 118, 140}, y \in {151, 144}, vx \in {0, 200} }

InitCollect ==
    /\ state = "Playing"
    /\ platforms = <<>>
    /\ collectibles = << Collectible_new(Px(150), screen_height - Px(160), "Coin"),
                         Collectible_new(Px(160), screen_height - Px(160), "Gem") >>
    /\ player \in CollectPlayers
    /\ camera_offset = Vec2(0, 0)
    /\ score = 0
    /\ time_survived = 0
    /\ current_keys = {}
    /\ previous_keys = {}
    /\ LoopIdle
    /\ ApiIdle

NextCollect ==
    \/ CallCheckCollection
    \/ CallCollectibleUpdate
    \/ CallUpdatePosition
    \/ CallResetGame

SpecCollect == InitCollect /\ [][NextCollect]_vars

----------------------------------------------------------------------------
(* Vocabulary of the properties *)

Called(name) == Len(hist) > 0 /\ hist[Len(hist)].op = name

LastCall == hist[Len(hist)]

\* the platform the last call was made against
Against == platforms[LastCall.i]

Left(b)   == b.position.x
Right(b)  == b.position.x + b.size.x
Top(b)    == b.position.y
Bottom(b) == b.position.y + b.size.y

\* extent of the intersection of two bodies on each axis (<= 0: none)
ExtentX(a, b) == Min(Right(a), Right(b)) - Max(Left(a), Left(b))
ExtentY(a, b) == Min(Bottom(a), Bottom(b)) - Max(Top(a), Top(b))

Intersect(a, b) == ExtentX(a, b) > 0 /\ ExtentY(a, b) > 0

\* the overlap distances of the spec, section 4.2
OverlapX(a, b) == Min(Right(a) - Left(b), Right(b) - Left(a))
OverlapY(a, b) == Min(Bottom(a) - Top(b), Bottom(b) - Top(a))

----------------------------------------------------------------------------
(* Properties of Spec *)

\* the physics calls of one Playing frame, in the order of the claim
ExpectedLog ==
    <<[call |-> "apply_gravity", platform |-> 0],
      [call |-> "update_position", platform |-> 0]>>
    \o [k \in 1..Len(platforms) |-> [call |-> "check_collision", platform |-> k]]

IsPrefix(s, t) ==
    Len(s) <= Len(t) /\ \A k \in 1..Len(s) : s[k] = t[k]

\* the player of the frame after gravity and integration
Integrated ==
    update_position(apply_gravity(frame_start, frame_time), frame_time)

\* p checked against platforms 1..k in insertion order, each check made on
\* the result of the one before
RECURSIVE CollideThrough(_, _)
CollideThrough(p, k) ==
    IF k = 0 THEN p
    ELSE check_collision(CollideThrough(p, k - 1), platforms[k])

\* C5: in every Playing frame Game::update calls apply_gravity, then
\* update_position, then check_collision for each platform in insertion
\* order, each check made on the player as corrected by the checks before.
C5_FrameOrder ==
    /\ IsPrefix(frame_log, ExpectedLog)
    /\ pc = "update_position" =>
           /\ Len(frame_log) = 1
           /\ player = apply_gravity(frame_start, frame_time)
    /\ pc = "check_collision" =>
           /\ Len(frame_log) = 2 + (idx - 1)
           /\ player = CollideThrough(Integrated, idx - 1)
    /\ (pc = "handle_input" /\ frame_log # <<>>) =>
           /\ frame_log = ExpectedLog
           /\ player = CollideThrough(Integrated, Len(platforms))

\* a complete frame in which the falling player was put on the ground by
\* the check of the first platform and then checked against the others
C5_Witness ==
    /\ pc = "handle_input"
    /\ frame_log = ExpectedLog
    /\ ~frame_start.body.on_ground
    /\ player.body.on_ground
    /\ player # Integrated
    /\ Bottom(player.body) = Top(platforms[1].body)

----------------------------------------------------------------------------
(* Properties of SpecPhysics *)

\* the body of the landing scenario: position (100, 50), velocity (0, 500),
\* integrated with dt = 0.1 s and then checked against platform 1
LandingScenarioRun ==
    /\ Len(hist) = 2
    /\ start.body.position = Vec2(Px(100), Px(50))
    /\ start.body.velocity = Vec2(0, 500)
    /\ hist[1] = Call("update_position", 2, 0)
    /\ hist[2] = Call("check_collision", 0, 1)

\* C1: in the landing scenario (body at (100, 50), velocity (0, 500), one
\* integration step with dt = 0.1, one check_collision against the platform
\* at (0, 100) of size (200, 20)) the body ends with position.y = 68,
\* velocity.y = 0 and on_ground = true.
C1_LandingScenario ==
    LandingScenarioRun =>
        /\ player.body.position.y = Px(68)
        /\ player.body.velocity.y = 0
        /\ player.body.on_ground

\* C2: a check_collision call on a falling body (velocity.y > 0) that
\* overlaps a platform with a vertical overlap smaller than the horizontal
\* one leaves position.y = T - size.y and on_ground = true, T the
\* platform's top.
C2_LandingProperty ==
    ( /\ Called("check_collision")
      /\ pre.body.velocity.y > 0
      /\ Intersect(pre.body, Against.body)
      /\ OverlapY(pre.body, Against.body) < OverlapX(pre.body, Against.body) )
    => /\ player.body.position.y = Top(Against.body) - player.body.size.y
       /\ player.body.on_ground

JumpInitiated ==
    Called("jump") /\ pre.current_jump_count < pre.max_jump_count

VerticalResolution ==
    /\ Called("check_collision")
    /\ Intersect(pre.body, Against.body)
    /\ ~(OverlapX(pre.body, Against.body) < OverlapY(pre.body, Against.body))

LandingResolution ==
    VerticalResolution /\ Top(pre.body) < Top(Against.body)

HeadHitResolution ==
    VerticalResolution /\ ~(Top(pre.body) < Top(Against.body))

\* C6 as stated: the player is airborne after a jump initiation and after a
\* vertical resolution that is not a landing (head hit), and grounded after
\* a landing resolution.
C6_Transitions ==
    /\ JumpInitiated => ~player.body.on_ground
    /\ HeadHitResolution => ~player.body.on_ground
    /\ LandingResolution => player.body.on_ground

\* C6 as amended: the player is airborne after a jump initiation and
\* grounded after a landing resolution; a head-hit resolution leaves
\* on_ground as it was.
C6_TransitionsAmended ==
    /\ JumpInitiated => ~player.body.on_ground
    /\ HeadHitResolution => player.body.on_ground = pre.body.on_ground
    /\ LandingResolution => player.body.on_ground

\* a grounded player standing on platform 1 walks into the underside corner
\* of platform 2 and is resolved by the head-hit branch, still grounded
C6_Witness ==
    /\ Len(hist) >= 2
    /\ hist[Len(hist) - 1].op = "update_position"
    /\ HeadHitResolution
    /\ LastCall.i = 2
    /\ Bottom(start.body) = Top(platforms[1].body)
    /\ pre.body.on_ground
    /\ player.body.on_ground

C8_GroundedNoOp ==
    (Called("apply_gravity") /\ pre.body.on_ground) => player = pre

C8_Witness ==
    /\ Called("apply_gravity")
    /\ pre.body.on_ground
    /\ player.body.on_ground

\* C9: apply_gravity on an airborne body sets velocity.y to
\* min(velocity.y + gravity * dt, terminal_velocity) and changes nothing
\* else; an upward (negative) result is left as computed.
C9_AirborneGravity ==
    (Called("apply_gravity") /\ ~pre.body.on_ground) =>
        LET vy == pre.body.velocity.y + (980 * LastCall.dt) \div 20
        IN  /\ player = [pre EXCEPT !.body.velocity.y = Min(vy, 500)]
            /\ vy < 0 => player.body.velocity.y = vy

\* an airborne body moving upward at the jump impulse
C9_Witness ==
    /\ Called("apply_gravity")
    /\ ~pre.body.on_ground
    /\ pre.body.velocity.y = -400
    /\ player.body.velocity.y < 0

----------------------------------------------------------------------------
(* Properties of SpecGeom *)

\* C3: wherever the body overlaps the platform, check_collision yields the
\* position and on_ground flag that get_collision_info followed by
\* separate_bodies yields on the same pair.
C3_PathsAgree ==
    ( /\ Called("check_collision")
      /\ Intersect(pre.body, Against.body) )
    => LET info == get_collision_info(pre.body, Against.body)
           sep  == separate_bodies(pre.body, Against.body, info[1])
       IN  /\ player.body.position = sep.position
           /\ player.body.on_ground = sep.on_ground

C10_StrictOverlap ==
    Called("aabb_overlap") =>
        LET a == pre.body
            b == Against.body
        IN  /\ ret[1] = Intersect(a, b)
            /\ ret[1] = ( /\ Left(a) < Right(b) /\ Right(a) > Left(b)
                          /\ Top(a) < Bottom(b) /\ Bottom(a) > Top(b) )
            /\ (ExtentX(a, b) <= 0 \/ ExtentY(a, b) <= 0) => ret[1] = FALSE

\* the rectangles share a piece of an edge and nothing more
C10_Witness ==
    /\ Called("aabb_overlap")
    /\ ExtentX(pre.body, Against.body) = 0
    /\ ExtentY(pre.body, Against.body) > 0
    /\ ret = Some(FALSE)

\* C11: when overlap_x = overlap_y both get_collision_info and
\* resolve_collision take the vertical branch, the horizontal one being
\* taken only when overlap_x < overlap_y; for bounds (0, 0, 10, 10) against
\* (5, 5, 15, 15) both overlaps are 5 and get_collision_info reports
\* overlap 5 with side Top or Bottom.
C11_TieBreak ==
    LET a == pre.body
        b == Against.body
        tie == Intersect(a, b) /\ OverlapX(a, b) = OverlapY(a, b)
    IN  /\ (Called("get_collision_info") /\ tie) =>
               /\ ret # None
               /\ ret[1].side \in {"Top", "Bottom"}
               /\ ret[1].overlap = OverlapY(a, b)
        /\ (Called("get_collision_info") /\ ret # None
                /\ ret[1].side \in {"Left", "Right"}) =>
               OverlapX(a, b) < OverlapY(a, b)
        /\ (Called("check_collision") /\ tie) =>
               /\ player.body.position.x = a.position.x
               /\ player.body.velocity.x = a.velocity.x
               /\ player.body.velocity.y = 0
               /\ player.body.position.y \in {Top(b) - a.size.y, Bottom(b)}
        /\ (Called("check_collision")
                /\ player.body.velocity.x # a.velocity.x) =>
               OverlapX(a, b) < OverlapY(a, b)
        /\ (Called("get_collision_info")
                /\ get_bounds(a) = <<0, 0, 10, 10>>
                /\ get_bounds(b) = <<5, 5, 15, 15>>) =>
               /\ OverlapX(a, b) = 5
               /\ OverlapY(a, b) = 5
               /\ ret # None
               /\ ret[1].overlap = 5
               /\ ret[1].side \in {"Top", "Bottom"}

\* get_collision_info has answered for the pair of the scenario
C11_Witness ==
    /\ Called("get_collision_info")
    /\ get_bounds(pre.body) = <<0, 0, 10, 10>>
    /\ get_bounds(Against.body) = <<5, 5, 15, 15>>
    /\ ret # None
    /\ ret[1].side = "Bottom"
    /\ ret[1].overlap = 5

\* C12: get_collision_info(A, B) is None iff A and B do not overlap under
\* the strict test; otherwise overlap = min(overlap_x, overlap_y) and the
\* side is Right if overlap_x < overlap_y and A.left < B.left, Left if
\* overlap_x < overlap_y and A.left >= B.left, Bottom if overlap_x >=
\* overlap_y and A.top < B.top, Top otherwise.
C12_CollisionInfo ==
    Called("get_collision_info") =>
        LET a == pre.body
            b == Against.body
            ox == OverlapX(a, b)
            oy == OverlapY(a, b)
        IN  /\ (ret = None) = ~Intersect(a, b)
            /\ ret # None =>
                 /\ ret[1].overlap = Min(ox, oy)
                 /\ ret[1].side =
                        IF ox < oy /\ Left(a) < Left(b) THEN "Right"
                        ELSE IF ox < oy THEN "Left"
                        ELSE IF Top(a) < Top(b) THEN "Bottom"
                        ELSE "Top"

\* a horizontal collision of a body that starts left of the platform
C12_Witness ==
    /\ Called("get_collision_info")
    /\ ret # None
    /\ ret[1].side = "Right"
    /\ Left(pre.body) < Left(Against.body)
    /\ OverlapX(pre.body, Against.body) < OverlapY(pre.body, Against.body)

----------------------------------------------------------------------------
(* Further properties of SpecPhysics *)

HorizontalResolution ==
    /\ Called("check_collision")
    /\ Intersect(pre.body, Against.body)
    /\ OverlapX(pre.body, Against.body) < OverlapY(pre.body, Against.body)

\* C13: on_ground changes from false to true only inside a check_collision
\* call that takes the vertical landing branch; a horizontal resolution
\* leaves position.y, velocity.y and on_ground unchanged.
C13_GroundedOnlyByLanding ==
    /\ (~pre.body.on_ground /\ player.body.on_ground) => LandingResolution
    /\ HorizontalResolution =>
           /\ player.body.position.y = pre.body.position.y
           /\ player.body.velocity.y = pre.body.velocity.y
           /\ player.body.on_ground = pre.body.on_ground

\* an airborne, vertically moving player pushed out of a platform's side
C13_Witness ==
    /\ HorizontalResolution
    /\ ~pre.body.on_ground
    /\ pre.body.velocity.y # 0
    /\ player.body.position.x # pre.body.position.x

OnlyCalled(name) ==
    /\ Len(hist) > 0
    /\ \A k \in 1..Len(hist) : hist[k].op = name

\* C15: update_position on a body whose velocity is (0, 0) never changes
\* its position, whatever dt is and however often it is called.
C15_RestStays ==
    /\ (Called("update_position") /\ pre.body.velocity = Vec2(0, 0)) =>
           player.body.position = pre.body.position
    /\ (OnlyCalled("update_position") /\ start.body.velocity = Vec2(0, 0)) =>
           player.body.position = start.body.position

\* an airborne body at rest integrated as often as the run allows, with
\* both step lengths
C15_Witness ==
    /\ OnlyCalled("update_position")
    /\ Len(hist) = MaxOps
    /\ start.body.velocity = Vec2(0, 0)
    /\ ~start.body.on_ground
    /\ \E j, k \in 1..Len(hist) : hist[j].dt # hist[k].dt

\* C19: after check_bounds position.x >= 0; a negative position.x becomes 0
\* and velocity.x becomes 0, otherwise both are unchanged, also to the
\* right of the screen; position.y, velocity.y and on_ground never change.
C19_CheckBounds ==
    Called("check_bounds") =>
        /\ player.body.position.x >= 0
        /\ pre.body.position.x < 0 =>
               /\ player.body.position.x = 0
               /\ player.body.velocity.x = 0
        /\ pre.body.position.x >= 0 =>
               /\ player.body.position.x = pre.body.position.x
               /\ player.body.velocity.x = pre.body.velocity.x
        /\ player.body.position.y = pre.body.position.y
        /\ player.body.velocity.y = pre.body.velocity.y
        /\ player.body.on_ground = pre.body.on_ground

\* a moving player left of the screen has been clamped
C19_Witness ==
    /\ Called("check_bounds")
    /\ pre.body.position.x < 0
    /\ pre.body.velocity.x # 0
    /\ player.body.position.x = 0

----------------------------------------------------------------------------
(* Properties of SpecOps *)

\* C14: across any sequence of gravity, integration, collision resolution,
\* bounds check, jump, move, separate_bodies, bounce and friction the
\* moving body's size never changes, and no platform's position, velocity
\* or size is changed.
C14_SizeAndPlatformsFixed ==
    /\ player.body.size = start.body.size
    /\ Len(platforms) = Len(OpsPlatforms)
    /\ \A i \in 1..Len(platforms) :
           /\ platforms[i].body.position = OpsPlatforms[i].body.position
           /\ platforms[i].body.velocity = OpsPlatforms[i].body.velocity
           /\ platforms[i].body.size = OpsPlatforms[i].body.size

\* a run that resolved the player against a platform, updated the moving
\* platform and has moved the player
C14_Witness ==
    /\ \E k \in 1..Len(hist) : hist[k].op = "separate_bodies"
    /\ \E k \in 1..Len(hist) : hist[k].op = "Platform_update" /\ hist[k].i = 2
    /\ Called("check_collision")
    /\ player.body.position # start.body.position

\* C16: separate_bodies changes only the moving body and only along the
\* axis of info.side.  Top: position.y = static.top - moving.height,
\* velocity.y = min(velocity.y, 0), on_ground = true.  Bottom: position.y =
\* static.bottom, velocity.y = max(velocity.y, 0).  Left: position.x =
\* static.left - moving.width, velocity.x = min(velocity.x, 0).  Right:
\* position.x = static.right, velocity.x = max(velocity.x, 0).  Every side
\* but Top leaves on_ground unchanged; the off-axis position and velocity
\* components are unchanged.
C16_SeparateBodies ==
    Called("separate_bodies") =>
        LET m == pre.body
            st == Against.body
            r == player.body
            side == LastCall.side
            vertical == side \in {"Top", "Bottom"}
        IN  /\ player = [pre EXCEPT !.body = r]
            /\ platforms = OpsPlatforms
            /\ r.size = m.size /\ r.mass = m.mass
            /\ side = "Top" =>
                   /\ r.position.y = Top(st) - m.size.y
                   /\ r.velocity.y = Min(m.velocity.y, 0)
                   /\ r.on_ground
            /\ side = "Bottom" =>
                   /\ r.position.y = Bottom(st)
                   /\ r.velocity.y = Max(m.velocity.y, 0)
            /\ side = "Left" =>
                   /\ r.position.x = Left(st) - m.size.x
                   /\ r.velocity.x = Min(m.velocity.x, 0)
            /\ side = "Right" =>
                   /\ r.position.x = Right(st)
                   /\ r.velocity.x = Max(m.velocity.x, 0)
            /\ side # "Top" => r.on_ground = m.on_ground
            /\ vertical =>
                   /\ r.position.x = m.position.x
                   /\ r.velocity.x = m.velocity.x
            /\ ~vertical =>
                   /\ r.position.y = m.position.y
                   /\ r.velocity.y = m.velocity.y

\* an airborne body that moves up and to the right, put on top of a platform
C16_Witness ==
    /\ Called("separate_bodies")
    /\ LastCall.side = "Top"
    /\ ~pre.body.on_ground
    /\ pre.body.velocity.y < 0
    /\ pre.body.velocity.x > 0
    /\ player.body.on_ground
    /\ player.body.position.y # pre.body.position.y

\* C20: apply_bounce replaces only the velocity component on the
\* collision's axis (y for Top and Bottom, x for Left and Right) by its
\* negation times restitution and leaves position, the other velocity
\* component, size and on_ground unchanged; restitution 0 gives 0 and
\* restitution 1 the exact negation.
C20_ApplyBounce ==
    Called("apply_bounce") =>
        LET m == pre.body
            r == player.body
            vertical == LastCall.side \in {"Top", "Bottom"}
            num == LastCall.frac[1]
            den == LastCall.frac[2]
            old == IF vertical THEN m.velocity.y ELSE m.velocity.x
            new == IF vertical THEN r.velocity.y ELSE r.velocity.x
            other == IF vertical THEN "x" ELSE "y"
        IN  /\ player = [pre EXCEPT !.body = r]
            /\ r.position = m.position
            /\ r.size = m.size
            /\ r.on_ground = m.on_ground
            /\ r.mass = m.mass
            /\ r.velocity[other] = m.velocity[other]
            \* new = -old * num / den, to the unit of velocity
            /\ Abs(new * den + old * num) < den
            /\ (new >= 0) = (old <= 0) \/ new = 0
            /\ num = 0 => new = 0
            /\ num = den => new = -old

\* a perfectly elastic bounce off a wall, and one of half the speed off a
\* floor, of a body that moves on both axes
C20_Witness ==
    /\ Called("apply_bounce")
    /\ pre.body.velocity.x # 0
    /\ pre.body.velocity.y # 0
    /\ \/ /\ LastCall.side = "Left"
          /\ LastCall.frac = <<1, 1>>
          /\ player.body.velocity.x = -pre.body.velocity.x
       \/ /\ LastCall.side = "Bottom"
          /\ LastCall.frac = <<1, 2>>
          /\ 2 * player.body.velocity.y = -pre.body.velocity.y

----------------------------------------------------------------------------
(* Properties of SpecQuery *)

\* the body of the last call moved by velocity * t_k, t_k = k * dt / samples
Translated(k) ==
    [pre.body EXCEPT
         !.position.x = pre.body.position.x
                            + (LastCall.velocity.x * LastCall.dt * k) \div samples,
         !.position.y = pre.body.position.y
                            + (LastCall.velocity.y * LastCall.dt * k) \div samples]

\* the samples at which the translated body overlaps the platform
Hits == { k \in 1..samples : Intersect(Translated(k), Against.body) }

C18_IsOnPlatform ==
    Called("is_on_platform") =>
        LET b == pre.body
            pl == Against.body
            horizontal == Left(b) < Right(pl) /\ Right(b) > Left(pl)
            d == Bottom(b) - Top(pl)
            within == -LastCall.tolerance <= d /\ d <= LastCall.tolerance
        IN  /\ ret = Some(horizontal /\ within)
            /\ (LastCall.tolerance = Px(5) /\ Top(pl) = Px(100) /\ horizontal) =>
                   /\ Bottom(b) = Px(103) => ret = Some(TRUE)
                   /\ Bottom(b) = Px(110) => ret = Some(FALSE)
            /\ player = pre

\* the first body of the scenario, falling and airborne, asked twice
C18_Witness ==
    /\ Len(hist) = 2
    /\ hist[1].op = "is_on_platform" /\ hist[2].op = "is_on_platform"
    /\ hist[2].tolerance = Px(5)
    /\ Top(Against.body) = Px(100)
    /\ Bottom(pre.body) = Px(103)
    /\ ret = Some(TRUE)
    /\ pre.body.velocity.y > 0
    /\ ~pre.body.on_ground

----------------------------------------------------------------------------
(* Properties of SpecOverlap *)

\* C21: PhysicsBody::overlaps_with, CollisionDetector::aabb_overlap and
\* Physics::rectangles_overlap return the same boolean for every pair of
\* rectangles, and each returns the same boolean with its two arguments
\* exchanged: whichever was called, in whichever order, the result is
\* that of the strict intersection of the pair.
C21_SameOverlapTest ==
    (Len(hist) > 0
        /\ LastCall.op \in {"overlaps_with", "aabb_overlap",
                            "rectangles_overlap"}) =>
        ret = Some(Intersect(pre.body, Against.body))

\* two of the tests asked about a pair that touches along an edge, one of
\* them with the arguments exchanged
C21_Witness ==
    /\ Len(hist) = 2
    /\ hist[1].op # hist[2].op
    /\ hist[1].swap # hist[2].swap
    /\ ExtentX(pre.body, Against.body) = 0
    /\ ExtentY(pre.body, Against.body) > 0
    /\ ret = Some(FALSE)

----------------------------------------------------------------------------
(* Further properties of SpecQuery *)

\* C22: Platform::is_landing_on returns true only if the entity overlaps
\* the platform horizontally, its bottom is at or below the platform's top
\* and it was above the platform in the previous frame (its previous
\* bottom at most the 5 pixels of the code's tolerance below the top).
C22_LandingOnlyIf ==
    (Called("is_landing_on") /\ ret = Some(TRUE)) =>
        LET b == pre.body
            pl == Against.body
        IN  /\ Left(b) < Right(pl) /\ Right(b) > Left(pl)
            /\ Bottom(b) >= Top(pl)
            /\ LastCall.entity_prev_y + b.size.y <= Top(pl) + Px(5)

----------------------------------------------------------------------------
(* Further properties of Spec *)

\* Game::update has returned and the next frame has not begun
EndOfFrame == pc = "handle_input" /\ frames > 0

\* the body stands on the platform: bottom edge on its top edge, within
\* its horizontal extent
SupportedBy(b, pl) ==
    /\ Bottom(b) = Top(pl)
    /\ Left(b) < Right(pl)
    /\ Right(b) > Left(pl)

\* C23: at the end of every Game::update frame in the Playing state, a
\* player whose on_ground flag is true has its bottom edge on the top edge
\* of some platform whose horizontal extent it overlaps.
C23_GroundedSupported ==
    (EndOfFrame /\ state = "Playing" /\ player.body.on_ground) =>
        \E i \in 1..Len(platforms) : SupportedBy(player.body, platforms[i].body)

----------------------------------------------------------------------------
(* Properties of the collision pass, SpecPhysics and SpecGeom *)

\* the last calls were Game::update's pass over the platforms, in order,
\* after the integration of the frame
CollisionPassDone ==
    LET n == Len(platforms)
    IN  /\ Len(hist) > n
        /\ hist[Len(hist) - n].op = "update_position"
        /\ \A i \in 1..n :
               /\ hist[Len(hist) - n + i].op = "check_collision"
               /\ hist[Len(hist) - n + i].i = i

\* C24: after the collision pass of a frame has called check_collision
\* once for every platform in order, the player's bounds overlap none of
\* the platforms, also when the player overlapped two of them.
C24_PassLeavesNoOverlap ==
    CollisionPassDone =>
        \A i \in 1..Len(platforms) : ~Intersect(player.body, platforms[i].body)

Resolved == Called("check_collision") /\ Intersect(pre.body, Against.body)

----------------------------------------------------------------------------
(* Properties of the jump counter, SpecPhysics *)

\* C26: in every state the player can be in through Player::new,
\* move_left, move_right, jump, apply_gravity, update_position and
\* check_collision, on_ground = true implies current_jump_count = 0.
C26_GroundedCountZero ==
    player.body.on_ground => player.current_jump_count = 0

\* a player that had used its jumps has landed
C26_Witness ==
    /\ LandingResolution
    /\ pre.current_jump_count = pre.max_jump_count
    /\ player.body.on_ground
    /\ player.current_jump_count = 0

\* C27: current_jump_count never exceeds max_jump_count.  A jump made with
\* current_jump_count = max_jump_count changes nothing; any other jump sets
\* velocity.y = jump_force, adds exactly one to the count and clears
\* on_ground.  The count returns to 0 only through set_on_ground(true),
\* which only a landing resolution calls.
C27_JumpCount ==
    /\ player.current_jump_count <= player.max_jump_count
    /\ (Called("jump") /\ pre.current_jump_count = pre.max_jump_count) =>
           player = pre
    /\ (Called("jump") /\ pre.current_jump_count # pre.max_jump_count) =>
           player = [pre EXCEPT
                        !.body.velocity.y = pre.jump_force,
                        !.current_jump_count = pre.current_jump_count + 1,
                        !.body.on_ground = FALSE]
    /\ (pre.current_jump_count > 0 /\ player.current_jump_count = 0) =>
           LandingResolution
    /\ ~Called("jump") => player.current_jump_count <= pre.current_jump_count

\* a third jump in the air, after two that counted
C27_Witness ==
    /\ Len(hist) = 3
    /\ \A k \in 1..3 : hist[k].op = "jump"
    /\ start.body.on_ground
    /\ pre.current_jump_count = pre.max_jump_count
    /\ player = pre

----------------------------------------------------------------------------
(* Properties of the game state machine, Spec *)

\* the player Game::new and reset_game make
SpawnPlayer == Player_new(Px(100), screen_height - Px(100))

\* C28: the state changes from Playing to GameOver only at the end of an
\* update frame whose player position.y exceeds screen_height + 100; in
\* state GameOver Game::update leaves the player, score, time_survived and
\* collectibles unchanged; the state leaves GameOver only through
\* reset_game, in handle_input, which restores the spawn player (zero
\* velocity, on_ground false, jump count 0), score 0, time 0 and every
\* collectible uncollected, and leaves the platforms unchanged.
C28_StateMachine ==
    [][ /\ (state = "Playing" /\ state' = "GameOver") =>
               /\ pc = "check_collision" /\ pc' = "handle_input"
               /\ player' = player
               /\ player.body.position.y > screen_height + Px(100)
        /\ (state = "GameOver" /\ pc # "handle_input") =>
               /\ state' = "GameOver"
               /\ UNCHANGED <<player, score, time_survived, collectibles>>
        /\ (state = "GameOver" /\ state' # "GameOver") =>
               /\ pc = "handle_input"
               /\ state' = "Playing"
               /\ player' = SpawnPlayer
               /\ player'.body.velocity = Vec2(0, 0)
               /\ ~player'.body.on_ground
               /\ player'.current_jump_count = 0
               /\ score' = 0
               /\ time_survived' = 0
               /\ \A k \in DOMAIN collectibles' : ~collectibles'[k].collected
               /\ platforms' = platforms
       ]_vars

\* a game that was over after its first frame, restarted with Space at
\* the start of the second (in state Playing, Space makes the player jump)
C28_Witness ==
    /\ frames = 1
    /\ pc = "update"
    /\ state = "Playing"
    /\ current_keys = {"Space"}
    /\ player = SpawnPlayer
    /\ time_survived = 0

----------------------------------------------------------------------------
(* Properties of the input, Spec *)

JumpKeys == {"Space", "W", "Up"}

\* C29: after InputHandler::update, is_key_pressed(k) is true iff k was
\* polled down in this frame and was not down in the previous frame;
\* while no jump key goes down that was not down in the previous frame
\* (a jump key is held), handle_input does not invoke Player::jump, and a
\* jump key that goes down invokes it; is_key_pressed and is_key_released
\* are never both true for the same key in one frame.
C29_EdgeTriggered ==
    [][ pc = "handle_input" =>
            LET polled == current_keys'
                before == current_keys
                fresh == { k \in JumpKeys : k \in polled /\ k \notin before }
                restart == "R" \in polled /\ "R" \notin before
            IN  /\ previous_keys' = before
                /\ polled \subseteq keys_to_check
                /\ \A k \in keys_to_check :
                       /\ is_key_pressed(current_keys', previous_keys', k)
                              = (k \in polled /\ k \notin before)
                       /\ ~(/\ is_key_pressed(current_keys', previous_keys', k)
                            /\ is_key_released(current_keys', previous_keys', k))
                /\ (state = "Playing" /\ fresh = {} /\ ~restart) =>
                       /\ player'.body.velocity.y = player.body.velocity.y
                       /\ player'.current_jump_count = player.current_jump_count
                       /\ player'.body.on_ground = player.body.on_ground
                /\ (state = "Playing" /\ fresh # {} /\ ~restart
                        /\ player.current_jump_count < player.max_jump_count) =>
                       /\ player'.body.velocity.y = player.jump_force
                       /\ player'.current_jump_count =
                              player.current_jump_count + 1
      ]_vars

\* Space held down over the first two frames: one jump
C29_Witness ==
    /\ frames = 1
    /\ pc = "update"
    /\ state = "Playing"
    /\ "Space" \in current_keys
    /\ "Space" \in previous_keys
    /\ player.current_jump_count = 1

----------------------------------------------------------------------------
(* Properties of SpecCollect *)

\* the call a step appends to the history
NewCall == hist'[Len(hist')]

\* C30: check_collection returns the collectible's value and sets
\* collected = true only when the collectible was not yet collected and
\* its body strictly overlaps the player body, and returns 0 without
\* changing anything in every other case; collected goes back to false
\* only in reset_game: each collectible yields its value at most once
\* between resets.
C30_CollectOnce ==
    [][ hist' # hist =>
          /\ NewCall.op = "check_collection" =>
                 LET c == collectibles[NewCall.i]
                     hit == ~c.collected /\ Intersect(c.body, player.body)
                 IN  /\ hit =>
                            /\ ret' = Some(c.value)
                            /\ collectibles' =
                                   [collectibles EXCEPT
                                        ![NewCall.i].collected = TRUE]
                     /\ ~hit =>
                            /\ ret' = Some(0)
                            /\ collectibles' = collectibles
                     /\ player' = player
                     /\ score' = score
          /\ \A k \in DOMAIN collectibles :
                 (collectibles[k].collected /\ ~collectibles'[k].collected) =>
                     NewCall.op = "reset_game"
          /\ \A k \in DOMAIN collectibles :
                 collectibles[k].collected =>
                     ~(/\ NewCall.op = "check_collection"
                       /\ NewCall.i = k
                       /\ NewCall.value # 0)
      ]_vars

\* a coin that was taken is asked again while the player is still on it,
\* and gives nothing
C30_Witness ==
    /\ Len(hist) >= 2
    /\ hist[1] = [op |-> "check_collection", dt |-> 0, i |-> 1, value |-> 10]
    /\ hist[2] = [op |-> "check_collection", dt |-> 0, i |-> 1, value |-> 0]
    /\ collectibles[1].collected
    /\ Intersect(collectibles[1].body, player.body)
    /\ ret = Some(0)

====
